---- MODULE Spec2Model ----
(***************************************************************************)
(* Orchestration-and-recovery control loop of the coding agent             *)
(* (src/main.py) with the sandbox result type (src/code_generator/         *)
(* sandbox.py).  One operating-system process runs Application.run() at a  *)
(* time; the run directory (objective.txt, checkpoint.json, the            *)
(* iteration_XX_* record directories) outlives the process and is what a   *)
(* later process resumes from.                                             *)
(***************************************************************************)
EXTENDS Integers, Sequences, FiniteSets, TLC

(***************************************************************************)
(* Bounds of the model.                                                    *)
(***************************************************************************)
\* src/main.py:25 sets 25; the loop bound is scaled down so that the
\* budget-exhausted end of the loop is reached within the check.
MAX_ORCHESTRATOR_STEPS == 2
\* src/main.py:26 sets 5; scaled down likewise.
MAX_CODE_AGENT_ATTEMPTS == 2
\* how many times a process is launched again on the same run directory
MaxRelaunches == 1
\* largest exit code drawn for an arbitrary ExecutionResult value
MaxExitCode == 5
\* most files in the artifact set of a sandbox session
MaxFiles == 2
\* most history lines of a run state that is saved and loaded back
MaxHistory == 1
\* retries of one oracle call after a transient server fault
MaxOracleRetries == 1

\* Python's None where the value is otherwise a string
None == "None"
\* Python's None where the value is otherwise a feedback text
NoFeedback == <<>>

(***************************************************************************)
(* Small value sets for what the collaborators return.                     *)
(***************************************************************************)
Objectives == {"obj"}
\* CodeAgentOutput values (files + reasoning) the code oracle may return
Codes == {"codeA", "codeB"}
\* suffix command of the decision oracle for code_agent ("" = none)
Suffixes == {"", "extra"}

VARIABLES
    \* ---- durable state: the run directory ----
    runDir,            \* the run directory exists
    objectiveTxt,      \* objective.txt exists in it
    ckptFile,          \* checkpoint.json: [data, written], see File
    codeDirs,          \* <<step, attempt>> whose iteration dir has a code/ subdirectory
    \* ---- the process: Application fields and locals of run() ----
    pc,
    resume_from,       \* Application.resume_from is set
    objective,
    history,
    latest_code,
    execution_feedback,
    start_step,
    i,                 \* loop variable of run()
    command,           \* effective command of the current code_agent step
    attempt,           \* loop variable of _handle_code_generation_action
    local_feedback,    \* local execution_feedback of _handle_code_generation_action
    execution_result,
    continue_loop,
    fault,             \* exception that left run(), or None
    terminal,          \* how run() ended: "finished", "budget_exhausted", ...
    exitStatus,        \* "running", "zero", "nonzero", "killed"
    \* ---- observation of the run (history variables of the model) ----
    relaunches,
    loadStatus,        \* checkpoint.json as _load_checkpoint found it: "fresh" (not a
                       \* resume), "absent", "empty", "partial" or "complete"
    loadedRec,         \* checkpoint record read by _load_checkpoint (if loadStatus = "loaded")
    firstInput,        \* step and history of the first decision-oracle call of the process
    lastSaved,         \* checkpoint.json as the last completed save left it
    cycCodeCalls,      \* code-oracle calls of the current retry cycle
    cycSandboxRuns,    \* sandbox runs of the current retry cycle
    cycSuccessSeen,    \* an execution of the current retry cycle had exit code 0
    cycAfterSuccess,   \* oracle calls / sandbox runs issued after such an execution
    cycleReturn,       \* value returned by the last retry cycle (if returned)
    stepsStarted,      \* steps started by this process
    max_attempts,      \* MAX_CODE_AGENT_ATTEMPTS as the process is configured
    oracleFaults,      \* transient server faults of the oracle call in progress
    codeInput,         \* CodeAgentInput of the last code-oracle call of the cycle
    lastAttempt,       \* attempt, artifact set and result of the last sandbox run
    ckptWrites,        \* Checkpoint.save calls this process has completed
    sandboxOpen,       \* sandbox sessions of this process entered and not yet exited
    workspaces,        \* workspace directories this process made that exist
    \* ---- arbitrary ExecutionResult values (SpecER) ----
    er,
    erSuccessful,
    \* ---- sandbox sessions on the host's temporary directory (SpecSandbox) ----
    sbFiles,           \* DockerSandbox.files of each session: a sequence of paths
    sbPc,              \* where each session is in its lifecycle
    sbWorkspace,       \* DockerSandbox.workspace_path of each session, or None
    sbWritten,         \* how many of its files __enter__ has written
    sbSeen,            \* whose files the container of the session found in /app
    tmpDirs,           \* directories that exist under the temporary directory
    fs,                \* location -> session whose file is there, or None
    \* ---- one checkpoint written and read back (SpecCkpt) ----
    ckState,           \* the Checkpoint object
    ckDoc,             \* content of checkpoint.json: JSON key -> JSON value
    ckPrev,            \* content of checkpoint.json before the last save
    ckEdit,            \* what another writer changed in checkpoint.json
    ckLoaded,          \* what Checkpoint.load gave
    ckPc

diskVars == <<runDir, objectiveTxt, ckptFile, codeDirs>>
appVars == <<resume_from, objective, history, latest_code, execution_feedback, start_step>>
loopVars == <<i, command, attempt, local_feedback, execution_result, continue_loop>>
endVars == <<fault, terminal, exitStatus>>
obsVars == <<relaunches, loadStatus, loadedRec, firstInput, lastSaved, stepsStarted>>
cycVars == <<cycCodeCalls, cycSandboxRuns, cycSuccessSeen, cycAfterSuccess, cycleReturn>>
auxVars == <<max_attempts, oracleFaults, codeInput, lastAttempt>>
seqVars == <<ckptWrites, sandboxOpen, workspaces>>
erVars == <<er, erSuccessful>>
sbVars == <<sbFiles, sbPc, sbWorkspace, sbWritten, sbSeen, tmpDirs, fs>>
\* what no step of run() touches
ckVars == <<ckState, ckDoc, ckPrev, ckEdit, ckLoaded, ckPc>>
sideVars == <<erVars, sbVars, ckVars>>
\* what only run() touches
mainVars == <<diskVars, appVars, loopVars, endVars, obsVars, cycVars, auxVars, seqVars>>
vars == <<pc, mainVars, sideVars>>

(***************************************************************************)
(* ExecutionResult (sandbox.py:25-37)                                      *)
(***************************************************************************)
ExecutionResult(code, out, err, to) ==
    [exit_code |-> code, stdout |-> out, stderr |-> err, timed_out |-> to]

was_successful(r) == r.exit_code = 0

\* how subprocess.run ends in DockerSandbox.run() (sandbox.py:109-112):
\* the container exits with status 0 or another status, the timeout
\* expires, or the call raises something else
ExecutorEvents == {"exit_zero", "exit_nonzero", "timeout", "error"}

RunOutcome_timeout_exit_zero(ev) ==
    CASE ev = "exit_zero" -> ExecutionResult(0, "out", "", FALSE)
      [] ev = "exit_nonzero" -> ExecutionResult(1, "out", "SyntaxError", FALSE)
      [] ev = "timeout" -> ExecutionResult(0, "", "Execution timed out", TRUE)
      [] OTHER -> ExecutionResult(-1, "", "docker unavailable", FALSE)

\* the ExecutionResult run() returns for each of them (sandbox.py:113-128)
RunOutcome(ev) ==
    CASE ev = "exit_zero" -> ExecutionResult(0, "out", "", FALSE)
      [] ev = "exit_nonzero" -> ExecutionResult(1, "out", "SyntaxError", FALSE)
      [] ev = "timeout" -> ExecutionResult(-1, "", "Execution timed out", TRUE)
      [] OTHER -> ExecutionResult(-1, "", "docker unavailable", FALSE)

\* what DockerSandbox.run() can return (sandbox.py:109-128): the result of
\* the container, the synthetic timeout result, the unexpected-error result
RunResults == { RunOutcome(ev) : ev \in ExecutorEvents }


(***************************************************************************)
(* Checkpoint (main.py:37-56) and the checkpoint file                      *)
(***************************************************************************)
Checkpoint(obj, hist, code, fb, step) ==
    [objective |-> obj, history |-> hist, latest_code |-> code,
     execution_feedback |-> fb, orchestrator_step |-> step]

\* checkpoint.json holding the serialization of rec; written says how much
\* of the serialization is in the file: "absent" (no file), "empty",
\* "partial" or "complete"
File(rec, w) == [data |-> rec, written |-> w]

NoFile == File(Checkpoint(None, <<>>, None, NoFeedback, 0), "absent")

\* Checkpoint.save, `open(path, "w")` (main.py:48): the file is created or
\* truncated before anything is written
SaveOpened(rec) == File(rec, "empty")

\* Checkpoint.save, a flush of the buffered writer during json.dump
\* (main.py:49)
SaveFlushed(rec) == File(rec, "partial")

\* Checkpoint.save, leaving the `with` block (main.py:48-49)
SaveClosed_unflushed(rec) == File(rec, "partial")

SaveClosed(rec) == File(rec, "complete")

LoadOutcome_corrupt_as_missing(resume, file) ==
    IF ~resume THEN "fresh"
    ELSE IF file.written = "absent" THEN "missing"
    ELSE IF file.written # "complete" THEN "missing"
    ELSE "loaded"

\* _load_checkpoint with Checkpoint.load (main.py:140-163, 51-56): no
\* resume_from, no checkpoint.json, json.load raising on an empty or
\* truncated document, or a checkpoint
LoadOutcome(resume, file) ==
    IF ~resume THEN "fresh"
    ELSE IF file.written = "absent" THEN "missing"
    ELSE IF file.written # "complete" THEN "corrupt"
    ELSE "loaded"

ResumeStep_same_step(rec) == rec.orchestrator_step

ResumeStep_skips_a_step(rec) == rec.orchestrator_step + 2

\* main.py:162
ResumeStep(rec) == rec.orchestrator_step + 1

\* main.py:264-268
EXECUTION_COMMAND == <<"EXECUTION_COMMAND">>

EffectiveCommand_always_joins(suffix) ==
    EXECUTION_COMMAND \o <<" && ", suffix>>

EffectiveCommand(suffix) ==
    IF suffix # "" THEN EXECUTION_COMMAND \o <<" && ", suffix>>
    ELSE EXECUTION_COMMAND

\* main.py:218
Feedback(r) == <<"STDOUT:", r.stdout, "STDERR:", r.stderr>>

CycleNext_continue_after_success(r, att) ==
    IF att < MAX_CODE_AGENT_ATTEMPTS THEN "retry"
    ELSE IF was_successful(r) THEN "success" ELSE "exhausted"

CycleNext_one_attempt_short(r, att) ==
    IF was_successful(r) THEN "success"
    ELSE IF att < MAX_CODE_AGENT_ATTEMPTS - 1 THEN "retry"
    ELSE "exhausted"

\* control flow of one attempt of _handle_code_generation_action after the
\* sandbox run (main.py:185, 213-222)
CycleNext(r, att) ==
    IF was_successful(r) THEN "success"
    ELSE IF att < MAX_CODE_AGENT_ATTEMPTS THEN "retry"
    ELSE "exhausted"

SuccessReturn_stale_feedback(code, fb) ==
    [returned |-> TRUE, succeeded |-> TRUE, code |-> code, feedback |-> fb]

\* main.py:215
SuccessReturn(code, fb) ==
    [returned |-> TRUE, succeeded |-> TRUE, code |-> code, feedback |-> NoFeedback]

FailureReturn_drops_feedback(code, fb) ==
    [returned |-> TRUE, succeeded |-> FALSE, code |-> code, feedback |-> NoFeedback]

\* main.py:222
FailureReturn(code, fb) ==
    [returned |-> TRUE, succeeded |-> FALSE, code |-> code, feedback |-> fb]

NotReturned ==
    [returned |-> FALSE, succeeded |-> FALSE, code |-> None, feedback |-> NoFeedback]

StepFeedback_keeps_returned(ret) == ret.feedback

NoAgentInput ==
    [called |-> FALSE, command |-> <<>>, previous_result |-> None,
     execution_feedback |-> NoFeedback]

AgentInput_drops_feedback(cmd, previous, fb) ==
    [called |-> TRUE, command |-> cmd, previous_result |-> previous,
     execution_feedback |-> NoFeedback]

\* the CodeAgentInput of an attempt (main.py:190-195)
AgentInput(cmd, previous, fb) ==
    [called |-> TRUE, command |-> cmd, previous_result |-> previous,
     execution_feedback |-> fb]

\* what an attempt generated and how its execution ended (main.py:197-202)
Attempt(k, code, r) == [k |-> k, code |-> code, result |-> r]

\* main.py:270, 279-280: the feedback the run state holds after the cycle
StepFeedback_keeps_previous(ret) ==
    IF ret.succeeded THEN execution_feedback ELSE ret.feedback

StepFeedback(ret) == IF ret.succeeded THEN NoFeedback ELSE ret.feedback

\* history messages (main.py:281-292, 303, 308)
CodeMessage(ret, fb) ==
    IF ret.succeeded
    THEN <<"code_agent", "success", ret.code, NoFeedback>>
    ELSE <<"code_agent", "failed", ret.code, fb>>

HumanMessage(q, a) == <<"human_agent", q, a, NoFeedback>>

FinishMessage_without_reason(reason) == <<"finish", None, None, NoFeedback>>

FinishMessage(reason) == <<"finish", reason, None, NoFeedback>>

Running == {"start", "decide", "code_call", "sandbox_enter", "sandbox_run",
            "record", "human", "save_open", "save_write"}
Ended == {"done", "crashed", "killed"}

(***************************************************************************)
(* Values of the variables of a specification that is not the one running  *)
(***************************************************************************)
Sessions == {"s1", "s2"}

ErIdle ==
    /\ er = ExecutionResult(0, "", "", FALSE)
    /\ erSuccessful = TRUE

\* no checkpoint document: a JSON object without keys
NoDoc == [k \in {} |-> <<"null">>]

NoEdit == [missing |-> {}, extra |-> FALSE]

BlankCheckpoint == Checkpoint(None, <<>>, None, NoFeedback, 0)

NotLoaded == [ok |-> FALSE, error |-> None, rec |-> BlankCheckpoint]

CkIdle ==
    /\ ckState = BlankCheckpoint
    /\ ckDoc = NoDoc
    /\ ckPrev = NoDoc
    /\ ckEdit = NoEdit
    /\ ckLoaded = NotLoaded
    /\ ckPc = "idle"

SbIdle ==
    /\ sbFiles = [s \in Sessions |-> <<>>]
    /\ sbPc = [s \in Sessions |-> "idle"]
    /\ sbWorkspace = [s \in Sessions |-> None]
    /\ sbWritten = [s \in Sessions |-> 0]
    /\ sbSeen = [s \in Sessions |-> {}]
    /\ tmpDirs = {}
    /\ fs = <<>>

(***************************************************************************)
(* Application.__init__ (main.py:110-123)                                  *)
(***************************************************************************)
NoInput == [called |-> FALSE, step |-> 0, history |-> <<>>]
NoResult == ExecutionResult(0, "", "", FALSE)
NoAttempt == Attempt(0, None, NoResult)

\* the fields and locals of a newly constructed Application
Constructed(resume, obj) ==
    /\ pc' = "start"
    /\ resume_from' = resume
    /\ objective' = obj
    /\ history' = <<>>
    /\ latest_code' = None
    /\ execution_feedback' = NoFeedback
    /\ start_step' = 1
    /\ i' = 0
    /\ command' = <<>>
    /\ attempt' = 0
    /\ local_feedback' = NoFeedback
    /\ execution_result' = NoResult
    /\ continue_loop' = TRUE
    /\ fault' = None
    /\ terminal' = None
    /\ exitStatus' = "running"
    /\ loadStatus' = None
    /\ loadedRec' = NoFile.data
    /\ firstInput' = NoInput
    /\ stepsStarted' = 0
    /\ cycCodeCalls' = 0
    /\ cycSandboxRuns' = 0
    /\ cycSuccessSeen' = FALSE
    /\ cycAfterSuccess' = 0
    /\ cycleReturn' = NotReturned
    /\ oracleFaults' = 0
    /\ codeInput' = NoAgentInput
    /\ lastAttempt' = NoAttempt
    /\ max_attempts' = max_attempts
    /\ ckptWrites' = 0
    /\ sandboxOpen' = 0
    /\ workspaces' = 0

\* the command line (main.py:370-390): a new run needs an objective, a
\* resumed one may have none
Init ==
    /\ resume_from \in BOOLEAN
    /\ objective \in Objectives \cup {None}
    /\ ~resume_from => objective # None
    \* a directory given to --resume_from may or may not exist
    /\ runDir \in BOOLEAN
    /\ ~resume_from => ~runDir
    /\ objectiveTxt = FALSE
    /\ ckptFile = NoFile
    /\ codeDirs = {}
    /\ pc = "start"
    /\ history = <<>>
    /\ latest_code = None
    /\ execution_feedback = NoFeedback
    /\ start_step = 1
    /\ i = 0
    /\ command = <<>>
    /\ attempt = 0
    /\ local_feedback = NoFeedback
    /\ execution_result = NoResult
    /\ continue_loop = TRUE
    /\ fault = None
    /\ terminal = None
    /\ exitStatus = "running"
    /\ relaunches = 0
    /\ loadStatus = None
    /\ loadedRec = NoFile.data
    /\ firstInput = NoInput
    /\ lastSaved = NoFile
    /\ stepsStarted = 0
    /\ cycCodeCalls = 0
    /\ cycSandboxRuns = 0
    /\ cycSuccessSeen = FALSE
    /\ cycAfterSuccess = 0
    /\ cycleReturn = NotReturned
    /\ max_attempts = MAX_CODE_AGENT_ATTEMPTS
    /\ oracleFaults = 0
    /\ codeInput = NoAgentInput
    /\ lastAttempt = NoAttempt
    /\ ckptWrites = 0
    /\ sandboxOpen = 0
    /\ workspaces = 0
    /\ ErIdle
    /\ SbIdle
    /\ CkIdle

(***************************************************************************)
(* How run() ends                                                          *)
(***************************************************************************)
OnException_swallowed == "decide"

OnException_arguments_defaulted == "human"

\* main.py:338-346: the handler logs and re-raises; the exception leaves
\* run() and the process
OnException == "crashed"

Raise_caught_in_cycle(exc) ==
    /\ pc' = "sandbox_enter"
    /\ fault' = exc
    /\ terminal' = terminal
    /\ exitStatus' = exitStatus

\* an exception raised inside the try block of run()
Raise(exc) ==
    /\ pc' = OnException
    /\ fault' = exc
    /\ terminal' = "crashed"
    /\ exitStatus' = "nonzero"

\* an exception raised before the try block of run() (main.py:226-238)
RaiseOutside(exc) ==
    /\ pc' = "crashed"
    /\ fault' = exc
    /\ terminal' = "crashed"
    /\ exitStatus' = "nonzero"

ReturnStatus_nonzero_on_exhaustion(how) ==
    IF how = "finished" THEN "zero" ELSE "nonzero"

\* run() returns normally (main.py:236, 331-337) and __main__ ends
\* (main.py:401-404): the interpreter exits with status 0
ReturnStatus(how) == "zero"

Return(how) ==
    /\ pc' = "done"
    /\ terminal' = how
    /\ exitStatus' = ReturnStatus(how)
    /\ fault' = fault

(***************************************************************************)
(* run(): _setup_run_dir, _load_checkpoint, the objective check and the    *)
(* image setup (main.py:226-238), up to the head of the loop               *)
(***************************************************************************)
\* objective after _load_checkpoint (main.py:149-158)
LoadedObjective(outcome) ==
    CASE outcome = "loaded" -> ckptFile.data.objective
      [] outcome = "missing" /\ objectiveTxt -> CHOOSE o \in Objectives : TRUE
      [] OTHER -> objective

\* --resume_from names a directory that does not exist (main.py:128-129)
SetupResumeDirMissing ==
    /\ pc = "start"
    /\ resume_from /\ ~runDir
    /\ RaiseOutside("FileNotFoundError")
    /\ UNCHANGED <<seqVars, auxVars, diskVars, appVars, loopVars, obsVars, cycVars, sideVars>>

\* the run directory after _setup_run_dir (main.py:126-138)
SetupRunDir ==
    IF resume_from
    THEN UNCHANGED <<runDir, objectiveTxt>>
    ELSE runDir' = TRUE /\ objectiveTxt' = TRUE

\* Checkpoint.load raises on checkpoint.json (main.py:157, 54-56)
SetupCheckpointCorrupt ==
    /\ pc = "start"
    /\ resume_from /\ runDir
    /\ LoadOutcome(resume_from, ckptFile) = "corrupt"
    /\ RaiseOutside("JSONDecodeError")
    /\ loadStatus' = ckptFile.written
    /\ UNCHANGED <<seqVars, auxVars, diskVars, appVars, loopVars, cycVars, sideVars,
                   relaunches, loadedRec, firstInput, lastSaved, stepsStarted>>

\* the fields set by _load_checkpoint (main.py:158-162)
Loaded(outcome) ==
    /\ loadStatus' = IF resume_from THEN ckptFile.written ELSE "fresh"
    /\ objective' = LoadedObjective(outcome)
    /\ IF outcome = "loaded"
       THEN /\ loadedRec' = ckptFile.data
            /\ history' = ckptFile.data.history
            /\ latest_code' = ckptFile.data.latest_code
            /\ execution_feedback' = ckptFile.data.execution_feedback
            /\ start_step' = ResumeStep(ckptFile.data)
       ELSE UNCHANGED <<loadedRec, history, latest_code, execution_feedback, start_step>>

\* no objective from the command line, the checkpoint or objective.txt:
\* run() logs an error and returns (main.py:230-236)
SetupNoObjective ==
    /\ pc = "start"
    /\ ~resume_from \/ runDir
    /\ LET outcome == LoadOutcome(resume_from, ckptFile) IN
        /\ outcome # "corrupt"
        /\ LoadedObjective(outcome) = None
        /\ SetupRunDir
        /\ Loaded(outcome)
    /\ Return("no_objective")
    /\ UNCHANGED <<seqVars, auxVars, ckptFile, codeDirs, resume_from, loopVars, cycVars, sideVars,
                   relaunches, firstInput, lastSaved, stepsStarted>>

\* DockerSandbox.setup_image() raises (main.py:238, sandbox.py:182-184)
SetupImageFails ==
    /\ pc = "start"
    /\ ~resume_from \/ runDir
    /\ LET outcome == LoadOutcome(resume_from, ckptFile) IN
        /\ outcome # "corrupt"
        /\ LoadedObjective(outcome) # None
        /\ SetupRunDir
        /\ Loaded(outcome)
    /\ RaiseOutside("CalledProcessError")
    /\ UNCHANGED <<seqVars, auxVars, ckptFile, codeDirs, resume_from, loopVars, cycVars, sideVars,
                   relaunches, firstInput, lastSaved, stepsStarted>>

InRange_one_more(step) == step <= MAX_ORCHESTRATOR_STEPS + 1

\* step is in range(self.start_step, MAX_ORCHESTRATOR_STEPS + 1)
\* (main.py:241)
InRange(step) == step <= MAX_ORCHESTRATOR_STEPS

\* the loop is entered at start_step, or its range is empty and run()
\* returns through the else branch of the for loop (main.py:241, 333-337)
SetupEnterLoop ==
    /\ pc = "start"
    /\ ~resume_from \/ runDir
    /\ LET outcome == LoadOutcome(resume_from, ckptFile) IN
        /\ outcome # "corrupt"
        /\ LoadedObjective(outcome) # None
        /\ SetupRunDir
        /\ Loaded(outcome)
    /\ IF InRange(start_step')
       THEN /\ pc' = "decide"
            /\ i' = start_step'
            /\ UNCHANGED endVars
       ELSE /\ Return("budget_exhausted")
            /\ UNCHANGED i
    /\ UNCHANGED <<seqVars, auxVars, ckptFile, codeDirs, resume_from, cycVars, sideVars,
                   command, attempt, local_feedback, execution_result, continue_loop,
                   relaunches, firstInput, lastSaved, stepsStarted>>

(***************************************************************************)
(* One step of the loop of run() (main.py:241-332)                         *)
(***************************************************************************)
\* the OrchestratorInput of the call (main.py:244-247), kept for the first
\* call of the process
ObserveInput ==
    /\ stepsStarted' = stepsStarted + 1
    /\ firstInput' = IF firstInput.called THEN firstInput
                     ELSE [called |-> TRUE, step |-> i, history |-> history]

\* orchestrator.run raises: the oracle is unavailable, its output does not
\* validate, or it names no known agent (orchestrator.py:151-179)
DecideFault ==
    /\ pc = "decide"
    /\ ObserveInput
    /\ Raise("OracleError")
    /\ UNCHANGED <<seqVars, auxVars, diskVars, appVars, loopVars, cycVars, sideVars,
                   relaunches, loadStatus, loadedRec, lastSaved>>

\* the oracle names an agent that tool_to_model_map does not hold:
\* orchestrator.run raises ValueError (orchestrator.py:163-168), so run()
\* never gets such a name and its last branch (main.py:311-316) is not
\* taken
DecideUnknownAgent ==
    /\ pc = "decide"
    /\ ObserveInput
    /\ Raise("ValueError")
    /\ UNCHANGED <<seqVars, auxVars, diskVars, appVars, loopVars, cycVars, sideVars,
                   relaunches, loadStatus, loadedRec, lastSaved>>

\* the oracle's answer does not fit the response model (a required
\* argument is missing): the call fails and is not tried again, the fault
\* leaves orchestrator.run (orchestrator.py:151, 177)
DecideMalformed ==
    /\ pc = "decide"
    /\ ObserveInput
    /\ Raise("ValidationError")
    /\ UNCHANGED <<seqVars, auxVars, diskVars, appVars, loopVars, cycVars, sideVars,
                   relaunches, loadStatus, loadedRec, lastSaved>>

RetriesExhausted_no_retry(n) == TRUE

\* the retries of the oracle call are used up
RetriesExhausted(n) == n >= MaxOracleRetries

\* a transient server fault of the decision oracle or of the code oracle
\* is met with a delayed retry of the call
OracleTransientFault ==
    /\ pc \in {"decide", "code_call"}
    /\ ~RetriesExhausted(oracleFaults)
    /\ oracleFaults' = oracleFaults + 1
    /\ UNCHANGED <<seqVars, pc, diskVars, appVars, loopVars, endVars, obsVars, cycVars, sideVars,
                   max_attempts, codeInput, lastAttempt>>

\* the decision oracle fails once more with its retries used up: the fault
\* leaves orchestrator.run (orchestrator.py:151, 177)
DecideServerFault ==
    /\ pc = "decide"
    /\ RetriesExhausted(oracleFaults)
    /\ ObserveInput
    /\ Raise("OracleServerFault")
    /\ UNCHANGED <<seqVars, auxVars, diskVars, appVars, loopVars, cycVars, sideVars,
                   relaunches, loadStatus, loadedRec, lastSaved>>

\* the oracle chooses code_agent (main.py:262-268) and the retry cycle
\* starts (main.py:183-185)
DecideCode ==
    /\ pc = "decide"
    /\ max_attempts >= 1
    /\ ObserveInput
    /\ \E suffix \in Suffixes : command' = EffectiveCommand(suffix)
    /\ local_feedback' = execution_feedback
    /\ attempt' = 1
    /\ pc' = "code_call"
    /\ continue_loop' = TRUE
    /\ cycCodeCalls' = 0
    /\ cycSandboxRuns' = 0
    /\ cycSuccessSeen' = FALSE
    /\ cycAfterSuccess' = 0
    /\ cycleReturn' = NotReturned
    /\ oracleFaults' = 0
    /\ codeInput' = NoAgentInput
    /\ lastAttempt' = NoAttempt
    /\ UNCHANGED <<seqVars, max_attempts, diskVars, appVars, endVars, sideVars, i, execution_result,
                   relaunches, loadStatus, loadedRec, lastSaved>>

\* the oracle chooses human_agent (main.py:294-298)
DecideHuman ==
    /\ pc = "decide"
    /\ ObserveInput
    /\ oracleFaults' = 0
    /\ pc' = "human"
    /\ continue_loop' = TRUE
    /\ UNCHANGED <<seqVars, max_attempts, codeInput, lastAttempt, diskVars, appVars, endVars, cycVars, sideVars,
                   i, command, attempt, local_feedback, execution_result,
                   relaunches, loadStatus, loadedRec, lastSaved>>

\* the oracle chooses finish (main.py:305-309, 318)
DecideFinish ==
    /\ pc = "decide"
    /\ ObserveInput
    /\ oracleFaults' = 0
    /\ history' = Append(history, FinishMessage("reason"))
    /\ continue_loop' = FALSE
    /\ pc' = "save_open"
    /\ UNCHANGED <<seqVars, max_attempts, codeInput, lastAttempt, diskVars, endVars, cycVars, sideVars,
                   resume_from, objective, latest_code, execution_feedback, start_step,
                   i, command, attempt, local_feedback, execution_result,
                   relaunches, loadStatus, loadedRec, lastSaved>>

\* human_agent.run returns the answer (main.py:299-303, 318)
HumanAnswer ==
    /\ pc = "human"
    /\ history' = Append(history, HumanMessage("question", "answer"))
    /\ pc' = "save_open"
    /\ UNCHANGED <<seqVars, auxVars, diskVars, endVars, cycVars, sideVars, loopVars, obsVars,
                   resume_from, objective, latest_code, execution_feedback, start_step>>

\* human_agent.run raises: input() meets the end of its stream
\* (human_agent.py:38)
HumanFault ==
    /\ pc = "human"
    /\ Raise("EOFError")
    /\ UNCHANGED <<seqVars, auxVars, diskVars, appVars, loopVars, obsVars, cycVars, sideVars>>

(***************************************************************************)
(* _handle_code_generation_action (main.py:175-222)                        *)
(***************************************************************************)
CountAfterSuccess == IF cycSuccessSeen THEN cycAfterSuccess + 1 ELSE cycAfterSuccess

\* code_agent.run returns a complete artifact set (main.py:190-197)
CodeCall ==
    /\ pc = "code_call"
    /\ \E code \in Codes : latest_code' = code
    /\ pc' = "sandbox_enter"
    /\ codeInput' = AgentInput(command, latest_code, local_feedback)
    /\ oracleFaults' = 0
    /\ cycCodeCalls' = cycCodeCalls + 1
    /\ cycAfterSuccess' = CountAfterSuccess
    /\ UNCHANGED <<seqVars, max_attempts, lastAttempt, diskVars, endVars, sideVars, loopVars, obsVars,
                   resume_from, objective, history, execution_feedback, start_step,
                   cycSandboxRuns, cycSuccessSeen, cycleReturn>>

\* code_agent.run raises (main.py:197)
CodeCallFault ==
    /\ pc = "code_call"
    /\ Raise("OracleError")
    /\ codeInput' = AgentInput(command, latest_code, local_feedback)
    /\ cycCodeCalls' = cycCodeCalls + 1
    /\ cycAfterSuccess' = CountAfterSuccess
    /\ UNCHANGED <<seqVars, max_attempts, oracleFaults, lastAttempt, diskVars, appVars, loopVars, obsVars, sideVars,
                   cycSandboxRuns, cycSuccessSeen, cycleReturn>>

\* the code oracle fails once more with its retries used up: the fault
\* leaves code_agent.run (coding_agent.py:108, main.py:197)
CodeCallServerFault ==
    /\ pc = "code_call"
    /\ RetriesExhausted(oracleFaults)
    /\ Raise("OracleServerFault")
    /\ codeInput' = AgentInput(command, latest_code, local_feedback)
    /\ cycCodeCalls' = cycCodeCalls + 1
    /\ cycAfterSuccess' = CountAfterSuccess
    /\ UNCHANGED <<seqVars, max_attempts, oracleFaults, lastAttempt, diskVars, appVars, loopVars,
                   obsVars, sideVars, cycSandboxRuns, cycSuccessSeen, cycleReturn>>

\* DockerSandbox.__enter__ (main.py:199-201, sandbox.py:58-67)
SandboxEnter ==
    /\ pc = "sandbox_enter"
    /\ pc' = "sandbox_run"
    /\ sandboxOpen' = sandboxOpen + 1
    /\ workspaces' = workspaces + 1
    /\ UNCHANGED <<ckptWrites, auxVars, diskVars, appVars, loopVars, endVars, obsVars, cycVars, sideVars>>

\* DockerSandbox.__enter__ raises while it writes the files
\* (sandbox.py:63-66): the with block is not entered, __exit__ is not
\* called and the directory made at sandbox.py:60 stays
SandboxEnterFault ==
    /\ pc = "sandbox_enter"
    /\ Raise("OSError")
    /\ workspaces' = workspaces + 1
    /\ UNCHANGED <<ckptWrites, sandboxOpen, auxVars, diskVars, appVars, loopVars, obsVars, cycVars, sideVars>>

SessionsAfterExit_left_open(n) == n

\* __exit__ at the end of the with block (main.py:199-202, sandbox.py:69-73)
SessionsAfterExit(n) == n - 1

\* sandbox.run() and the end of the with block (main.py:202,
\* sandbox.py:69-128)
SandboxRun ==
    /\ pc = "sandbox_run"
    /\ \E r \in RunResults : 
        /\ execution_result' = r
        /\ lastAttempt' = Attempt(attempt, latest_code, r)
        /\ cycSuccessSeen' = (cycSuccessSeen \/ r.exit_code = 0)
    /\ cycSandboxRuns' = cycSandboxRuns + 1
    /\ cycAfterSuccess' = CountAfterSuccess
    /\ pc' = "record"
    /\ sandboxOpen' = SessionsAfterExit(sandboxOpen)
    /\ workspaces' = SessionsAfterExit(workspaces)
    /\ UNCHANGED <<ckptWrites, max_attempts, oracleFaults, codeInput, diskVars, appVars, endVars, obsVars, sideVars,
                   i, command, attempt, local_feedback, continue_loop,
                   cycCodeCalls, cycleReturn>>

\* save_run_artifacts for a code-agent attempt (main.py:85-87): the
\* iteration directory is made with exist_ok, its code/ directory is not
CodeDirExists(dirs, step, att) == <<step, att>> \in dirs

\* save_run_artifacts raises on the code/ directory left by an earlier
\* execution of the same step and attempt (main.py:204-211, 87)
RecordFault ==
    /\ pc = "record"
    /\ CodeDirExists(codeDirs, i, attempt)
    /\ Raise("FileExistsError")
    /\ UNCHANGED <<seqVars, auxVars, diskVars, appVars, loopVars, obsVars, cycVars, sideVars>>

\* the attempt is recorded and failed with attempts left (main.py:204-219)
RecordRetry ==
    /\ pc = "record"
    /\ ~CodeDirExists(codeDirs, i, attempt)
    /\ CycleNext(execution_result, attempt) = "retry"
    /\ codeDirs' = codeDirs \cup {<<i, attempt>>}
    /\ local_feedback' = Feedback(execution_result)
    /\ attempt' = attempt + 1
    /\ pc' = "code_call"
    /\ UNCHANGED <<seqVars, auxVars, runDir, objectiveTxt, ckptFile, appVars, endVars, obsVars, cycVars,
                   sideVars, i, command, execution_result, continue_loop>>

CycleReturns_replaces_history(ret) ==
    /\ cycleReturn' = ret
    /\ latest_code' = ret.code
    /\ execution_feedback' = StepFeedback(ret)
    /\ history' = <<CodeMessage(ret, StepFeedback(ret))>>
    /\ pc' = "save_open"
    /\ codeInput' = NoAgentInput

\* the cycle returns to run(), which stores the result and appends the
\* history message (main.py:270-292, 318)
CycleReturns(ret) ==
    /\ cycleReturn' = ret
    /\ latest_code' = ret.code
    /\ execution_feedback' = StepFeedback(ret)
    /\ history' = Append(history, CodeMessage(ret, StepFeedback(ret)))
    /\ pc' = "save_open"
    /\ codeInput' = NoAgentInput

\* the attempt is recorded and succeeded (main.py:204-215)
RecordSuccess ==
    /\ pc = "record"
    /\ ~CodeDirExists(codeDirs, i, attempt)
    /\ CycleNext(execution_result, attempt) = "success"
    /\ codeDirs' = codeDirs \cup {<<i, attempt>>}
    /\ CycleReturns(SuccessReturn(latest_code, local_feedback))
    /\ UNCHANGED <<seqVars, max_attempts, oracleFaults, lastAttempt, runDir, objectiveTxt, ckptFile, endVars, obsVars, sideVars, loopVars,
                   resume_from, objective, start_step,
                   cycCodeCalls, cycSandboxRuns, cycSuccessSeen, cycAfterSuccess>>

\* the attempt is recorded and was the last of the budget (main.py:204-222)
RecordExhausted ==
    /\ pc = "record"
    /\ ~CodeDirExists(codeDirs, i, attempt)
    /\ CycleNext(execution_result, attempt) = "exhausted"
    /\ codeDirs' = codeDirs \cup {<<i, attempt>>}
    /\ local_feedback' = Feedback(execution_result)
    /\ CycleReturns(FailureReturn(latest_code, Feedback(execution_result)))
    /\ UNCHANGED <<seqVars, max_attempts, oracleFaults, lastAttempt, runDir, objectiveTxt, ckptFile, endVars, obsVars, sideVars,
                   i, command, attempt, execution_result, continue_loop,
                   resume_from, objective, start_step,
                   cycCodeCalls, cycSandboxRuns, cycSuccessSeen, cycAfterSuccess>>

(***************************************************************************)
(* The checkpoint write that ends a step (main.py:320-332, 46-49)          *)
(***************************************************************************)
StepCheckpoint_cleared_feedback ==
    Checkpoint(objective, history, latest_code, NoFeedback, i)

StepCheckpoint_previous_step ==
    Checkpoint(objective, history, latest_code, execution_feedback, i - 1)

StepCheckpoint == Checkpoint(objective, history, latest_code, execution_feedback, i)

\* open(path, "w")
SaveOpen ==
    /\ pc = "save_open"
    /\ ckptFile' = SaveOpened(StepCheckpoint)
    /\ pc' = "save_write"
    /\ UNCHANGED <<seqVars, auxVars, runDir, objectiveTxt, codeDirs, appVars, loopVars, endVars,
                   obsVars, cycVars, sideVars>>

\* the writer's buffer is flushed before json.dump is through
SaveFlush ==
    /\ pc = "save_write"
    /\ ckptFile.written = "empty"
    /\ ckptFile' = SaveFlushed(StepCheckpoint)
    /\ UNCHANGED <<seqVars, auxVars, runDir, objectiveTxt, codeDirs, pc, appVars, loopVars, endVars,
                   obsVars, cycVars, sideVars>>

\* the file is closed with the whole document in it, and the loop goes on,
\* breaks or runs out (main.py:331-337)
SaveClose ==
    /\ pc = "save_write"
    /\ ckptFile' = SaveClosed(StepCheckpoint)
    /\ lastSaved' = ckptFile'
    /\ ckptWrites' = ckptWrites + 1
    /\ IF ~continue_loop
       THEN Return("finished") /\ UNCHANGED i
       ELSE IF InRange(i + 1)
       THEN pc' = "decide" /\ i' = i + 1 /\ UNCHANGED endVars
       ELSE Return("budget_exhausted") /\ UNCHANGED i
    /\ UNCHANGED <<sandboxOpen, workspaces, auxVars, runDir, objectiveTxt, codeDirs, appVars, cycVars, sideVars,
                   command, attempt, local_feedback, execution_result, continue_loop,
                   relaunches, loadStatus, loadedRec, firstInput, stepsStarted>>

(***************************************************************************)
(* The process is terminated from outside, and a new one is launched on    *)
(* the run directory                                                       *)
(***************************************************************************)
Kill ==
    /\ pc \in Running
    /\ pc' = "killed"
    /\ terminal' = "killed"
    /\ exitStatus' = "killed"
    /\ UNCHANGED <<seqVars, auxVars, diskVars, appVars, loopVars, obsVars, cycVars, sideVars, fault>>

\* main.py:401 after the earlier process ended: --resume_from on the run
\* directory, or a new run while there is none
Relaunch ==
    /\ pc \in Ended
    /\ relaunches < MaxRelaunches
    /\ relaunches' = relaunches + 1
    /\ \E resume \in BOOLEAN, obj \in Objectives \cup {None} :
        /\ ~resume => (obj # None /\ ~runDir)
        /\ Constructed(resume, obj)
    /\ UNCHANGED <<diskVars, lastSaved, sideVars>>

\* the steps the process takes by itself
ProcessStep ==
    \/ SetupResumeDirMissing
    \/ SetupCheckpointCorrupt
    \/ SetupNoObjective
    \/ SetupImageFails
    \/ SetupEnterLoop
    \/ OracleTransientFault
    \/ DecideFault
    \/ DecideServerFault
    \/ DecideUnknownAgent
    \/ DecideMalformed
    \/ DecideCode
    \/ DecideHuman
    \/ DecideFinish
    \/ HumanAnswer
    \/ HumanFault
    \/ CodeCall
    \/ CodeCallFault
    \/ CodeCallServerFault
    \/ SandboxEnter
    \/ SandboxEnterFault
    \/ SandboxRun
    \/ RecordFault
    \/ RecordRetry
    \/ RecordSuccess
    \/ RecordExhausted
    \/ SaveOpen
    \/ SaveFlush
    \/ SaveClose

Next == ProcessStep \/ Kill \/ Relaunch

Spec == Init /\ [][Next]_vars

(***************************************************************************)
(* One process, launched on a run directory that earlier processes may     *)
(* have left, running undisturbed to its end                               *)
(***************************************************************************)
\* the history of s completed human_input steps
PastHistory(s) == [k \in 1..s |-> HumanMessage("question", "answer")]

\* the checkpoint.json an earlier process closed after its step s
\* (main.py:321-329); none for s = 0
LeftCheckpoint(s) ==
    IF s = 0 THEN NoFile
    ELSE SaveClosed(Checkpoint(CHOOSE o \in Objectives : TRUE, PastHistory(s),
                               None, NoFeedback, s))

\* the command line (main.py:370-390) and the run directory: absent, or
\* left by an earlier process after s steps, with the checkpoint of step s
\* whole or torn (the process was killed in the save), or with the first
\* attempt of step s + 1 recorded (the process ended in that step)
InitLive ==
    /\ resume_from \in BOOLEAN
    /\ objective \in Objectives \cup {None}
    /\ ~resume_from => objective # None
    /\ \E s \in 0..MAX_ORCHESTRATOR_STEPS, torn \in BOOLEAN :
        /\ torn => s >= 1
        /\ lastSaved = LeftCheckpoint(IF torn THEN s - 1 ELSE s)
        /\ ckptFile = IF torn THEN SaveFlushed(LeftCheckpoint(s).data)
                      ELSE LeftCheckpoint(s)
        /\ codeDirs \in IF torn \/ s = MAX_ORCHESTRATOR_STEPS
                       THEN {{}} ELSE {{}, {<<s + 1, 1>>}}
        /\ runDir \in BOOLEAN
        /\ objectiveTxt \in BOOLEAN
        /\ ~resume_from => ~runDir
        /\ objectiveTxt => runDir
        /\ (s >= 1 \/ codeDirs # {}) => objectiveTxt
    /\ pc = "start"
    /\ history = <<>>
    /\ latest_code = None
    /\ execution_feedback = NoFeedback
    /\ start_step = 1
    /\ i = 0
    /\ command = <<>>
    /\ attempt = 0
    /\ local_feedback = NoFeedback
    /\ execution_result = NoResult
    /\ continue_loop = TRUE
    /\ fault = None
    /\ terminal = None
    /\ exitStatus = "running"
    /\ relaunches = 0
    /\ loadStatus = None
    /\ loadedRec = NoFile.data
    /\ firstInput = NoInput
    /\ stepsStarted = 0
    /\ cycCodeCalls = 0
    /\ cycSandboxRuns = 0
    /\ cycSuccessSeen = FALSE
    /\ cycAfterSuccess = 0
    /\ cycleReturn = NotReturned
    /\ max_attempts = MAX_CODE_AGENT_ATTEMPTS
    /\ oracleFaults = 0
    /\ codeInput = NoAgentInput
    /\ lastAttempt = NoAttempt
    /\ ckptWrites = 0
    /\ sandboxOpen = 0
    /\ workspaces = 0
    /\ ErIdle
    /\ SbIdle
    /\ CkIdle

\* the interpreter goes on running the one thread of the process, and every
\* call it makes comes back, with a result or an exception
SpecLive == InitLive /\ [][ProcessStep]_vars /\ WF_vars(ProcessStep)

(***************************************************************************)
(* The run under an attempt budget other than the one of main.py:26        *)
(***************************************************************************)
\* values of MAX_CODE_AGENT_ATTEMPTS in the configuration block
\* (main.py:24-26): nothing in the program checks the value
Budgets == {0, MAX_CODE_AGENT_ATTEMPTS}

InitCfg ==
    /\ resume_from \in BOOLEAN
    /\ objective \in Objectives \cup {None}
    /\ ~resume_from => objective # None
    /\ runDir \in BOOLEAN
    /\ ~resume_from => ~runDir
    /\ objectiveTxt = FALSE
    /\ ckptFile = NoFile
    /\ codeDirs = {}
    /\ pc = "start"
    /\ history = <<>>
    /\ latest_code = None
    /\ execution_feedback = NoFeedback
    /\ start_step = 1
    /\ i = 0
    /\ command = <<>>
    /\ attempt = 0
    /\ local_feedback = NoFeedback
    /\ execution_result = NoResult
    /\ continue_loop = TRUE
    /\ fault = None
    /\ terminal = None
    /\ exitStatus = "running"
    /\ relaunches = 0
    /\ loadStatus = None
    /\ loadedRec = NoFile.data
    /\ firstInput = NoInput
    /\ lastSaved = NoFile
    /\ stepsStarted = 0
    /\ cycCodeCalls = 0
    /\ cycSandboxRuns = 0
    /\ cycSuccessSeen = FALSE
    /\ cycAfterSuccess = 0
    /\ cycleReturn = NotReturned
    /\ max_attempts \in Budgets
    /\ oracleFaults = 0
    /\ codeInput = NoAgentInput
    /\ lastAttempt = NoAttempt
    /\ ckptWrites = 0
    /\ sandboxOpen = 0
    /\ workspaces = 0
    /\ ErIdle
    /\ SbIdle
    /\ CkIdle

\* the oracle chooses code_agent and range(1, MAX_CODE_AGENT_ATTEMPTS + 1)
\* is empty: the cycle returns at once what the run state holds
\* (main.py:183-185, 221-222), and run() reads self.latest_code
\* (main.py:270-292, 318)
DecideCodeNoAttempt ==
    /\ pc = "decide"
    /\ max_attempts = 0
    /\ ObserveInput
    /\ \E suffix \in Suffixes : command' = EffectiveCommand(suffix)
    /\ local_feedback' = execution_feedback
    /\ continue_loop' = TRUE
    /\ cycCodeCalls' = 0
    /\ cycSandboxRuns' = 0
    /\ cycSuccessSeen' = FALSE
    /\ cycAfterSuccess' = 0
    /\ oracleFaults' = 0
    /\ lastAttempt' = NoAttempt
    /\ IF latest_code = None
       THEN /\ Raise("AttributeError")
            /\ cycleReturn' = FailureReturn(latest_code, execution_feedback)
            /\ codeInput' = NoAgentInput
            /\ UNCHANGED <<history, latest_code, execution_feedback>>
       ELSE /\ CycleReturns(FailureReturn(latest_code, execution_feedback))
            /\ UNCHANGED endVars
    /\ UNCHANGED <<seqVars, diskVars, sideVars, resume_from, objective, start_step,
                   i, attempt, execution_result, max_attempts,
                   relaunches, loadStatus, loadedRec, lastSaved>>

NextCfg == Next \/ DecideCodeNoAttempt

SpecCfg == InitCfg /\ [][NextCfg]_vars

(***************************************************************************)
(* ExecutionResult.was_successful on arbitrary values of the dataclass     *)
(***************************************************************************)
ExitCodes == -1 .. MaxExitCode

ExecutionResults ==
    { ExecutionResult(c, out, err, to) :
        c \in ExitCodes, out \in {"", "out"}, err \in {"", "err"}, to \in BOOLEAN }

\* run() is not running: the fields of a constructed Application and an
\* empty run directory
MainIdle ==
    /\ resume_from = FALSE
    /\ objective = None
    /\ runDir = FALSE
    /\ objectiveTxt = FALSE
    /\ ckptFile = NoFile
    /\ codeDirs = {}
    /\ history = <<>>
    /\ latest_code = None
    /\ execution_feedback = NoFeedback
    /\ start_step = 1
    /\ i = 0
    /\ command = <<>>
    /\ attempt = 0
    /\ local_feedback = NoFeedback
    /\ execution_result = NoResult
    /\ continue_loop = TRUE
    /\ fault = None
    /\ terminal = None
    /\ exitStatus = "running"
    /\ relaunches = 0
    /\ loadStatus = None
    /\ loadedRec = NoFile.data
    /\ firstInput = NoInput
    /\ lastSaved = NoFile
    /\ stepsStarted = 0
    /\ cycCodeCalls = 0
    /\ cycSandboxRuns = 0
    /\ cycSuccessSeen = FALSE
    /\ cycAfterSuccess = 0
    /\ cycleReturn = NotReturned
    /\ max_attempts = MAX_CODE_AGENT_ATTEMPTS
    /\ oracleFaults = 0
    /\ codeInput = NoAgentInput
    /\ lastAttempt = NoAttempt
    /\ ckptWrites = 0
    /\ sandboxOpen = 0
    /\ workspaces = 0

InitER ==
    /\ MainIdle
    /\ SbIdle
    /\ CkIdle
    /\ pc = "er_value"
    /\ er \in ExecutionResults
    /\ erSuccessful = FALSE

\* the property is read (sandbox.py:34-37)
ReadWasSuccessful ==
    /\ pc = "er_value"
    /\ erSuccessful' = was_successful(er)
    /\ pc' = "er_read"
    /\ UNCHANGED <<mainVars, sbVars, ckVars, er>>

\* another value is constructed (sandbox.py:26-32)
NewExecutionResult ==
    /\ pc = "er_read"
    /\ er' \in ExecutionResults
    /\ pc' = "er_value"
    /\ UNCHANGED <<mainVars, sbVars, ckVars, erSuccessful>>

NextER == ReadWasSuccessful \/ NewExecutionResult

SpecER == InitER /\ [][NextER]_vars

(***************************************************************************)
(* DockerSandbox sessions (sandbox.py:41-128) as the with statement of     *)
(* main.py:199-202 drives them; two sessions share the host's temporary    *)
(* directory                                                               *)
(***************************************************************************)
\* names mkdtemp can give a workspace (sandbox.py:45, 60)
WorkspaceNames == {"w1", "w2"}

\* directories a path can lead to: a workspace, the temporary directory
\* itself, or a directory elsewhere on the host
Dirs == WorkspaceNames \cup {"tmp", "root"}

FileNames == {"main.py"}

\* CodeFile.relative_path (sandbox.py:15-21): under the workspace ("."),
\* "../<name>", an absolute path ("/"), or "../<workspace w1>/<name>"
PathBases == {".", "..", "/", "../w1"}

Paths == [base : PathBases, name : FileNames]

FileLists == UNION { [1 .. n -> Paths] : n \in 1 .. MaxFiles }

Locations == Dirs \X FileNames

\* the directory of `self.workspace_path / code_file.relative_path`
\* (sandbox.py:64): an absolute right operand replaces the workspace and
\* ".." leaves it
ResolveDir(ws, path) ==
    CASE path.base = "." -> ws
      [] path.base = ".." -> "tmp"
      [] path.base = "/" -> "root"
      [] OTHER -> "w1"

InitSB ==
    /\ MainIdle
    /\ ErIdle
    /\ CkIdle
    /\ pc = "sessions"
    /\ sbFiles \in [Sessions -> FileLists]
    /\ sbPc = [s \in Sessions |-> "constructed"]
    /\ sbWorkspace = [s \in Sessions |-> None]
    /\ sbWritten = [s \in Sessions |-> 0]
    /\ sbSeen = [s \in Sessions |-> {}]
    /\ tmpDirs = {}
    /\ fs = [l \in Locations |-> None]

\* __enter__: tempfile.mkdtemp makes a directory that did not exist
\* (sandbox.py:60)
SbMkdtemp(s) ==
    /\ sbPc[s] = "constructed"
    /\ \E w \in WorkspaceNames \ tmpDirs :
        /\ sbWorkspace' = [sbWorkspace EXCEPT ![s] = w]
        /\ tmpDirs' = tmpDirs \cup {w}
    /\ sbPc' = [sbPc EXCEPT ![s] = "writing"]
    /\ UNCHANGED <<pc, mainVars, erVars, ckVars, sbFiles, sbWritten, sbSeen, fs>>

\* __enter__: the next file is written, its parent directories made
\* (sandbox.py:63-67)
SbWriteFile(s) ==
    /\ sbPc[s] = "writing"
    /\ LET path == sbFiles[s][sbWritten[s] + 1]
           dir == ResolveDir(sbWorkspace[s], path)
       IN  /\ tmpDirs' = tmpDirs \cup ({dir} \cap WorkspaceNames)
           /\ fs' = [fs EXCEPT ![<<dir, path.name>>] = s]
    /\ sbWritten' = [sbWritten EXCEPT ![s] = @ + 1]
    /\ sbPc' = [sbPc EXCEPT ![s] =
                    IF sbWritten[s] + 1 = Len(sbFiles[s]) THEN "entered" ELSE "writing"]
    /\ UNCHANGED <<pc, mainVars, erVars, ckVars, sbFiles, sbWorkspace, sbSeen>>

\* __enter__ raises while it writes a file (sandbox.py:65-66); the with
\* statement does not call __exit__ when __enter__ raised
SbWriteFails(s) ==
    /\ sbPc[s] = "writing"
    /\ sbPc' = [sbPc EXCEPT ![s] = "enter_raised"]
    /\ UNCHANGED <<pc, mainVars, erVars, ckVars, sbFiles, sbWorkspace, sbWritten, sbSeen,
                   tmpDirs, fs>>

\* run(): the container gets the workspace as /app (sandbox.py:92-115)
SbRun(s) ==
    /\ sbPc[s] = "entered"
    /\ sbSeen' = [sbSeen EXCEPT ![s] =
                    { fs[l] : l \in {sbWorkspace[s]} \X FileNames } \ {None}]
    /\ sbPc' = [sbPc EXCEPT ![s] = "ran"]
    /\ UNCHANGED <<pc, mainVars, erVars, ckVars, sbFiles, sbWorkspace, sbWritten, tmpDirs, fs>>

\* shutil.rmtree of the workspace if it exists (sandbox.py:71-72)
Rmtree(s) ==
    IF sbWorkspace[s] \in tmpDirs
    THEN /\ tmpDirs' = tmpDirs \ {sbWorkspace[s]}
         /\ fs' = [l \in Locations |-> IF l[1] = sbWorkspace[s] THEN None ELSE fs[l]]
    ELSE UNCHANGED <<tmpDirs, fs>>

\* __exit__ at the end of the with block, whether run() was called or the
\* body raised before it (sandbox.py:69-73)
SbExit(s) ==
    /\ sbPc[s] \in {"entered", "ran"}
    /\ Rmtree(s)
    /\ sbPc' = [sbPc EXCEPT ![s] = "exited"]
    /\ UNCHANGED <<pc, mainVars, erVars, ckVars, sbFiles, sbWorkspace, sbWritten, sbSeen>>

\* __exit__ called once more on a closed session (sandbox.py:69-73)
SbExitAgain(s) ==
    /\ sbPc[s] = "exited"
    /\ Rmtree(s)
    /\ sbPc' = [sbPc EXCEPT ![s] = "closed_twice"]
    /\ UNCHANGED <<pc, mainVars, erVars, ckVars, sbFiles, sbWorkspace, sbWritten, sbSeen>>

NextSB ==
    \E s \in Sessions :
        \/ SbMkdtemp(s)
        \/ SbWriteFile(s)
        \/ SbWriteFails(s)
        \/ SbRun(s)
        \/ SbExit(s)
        \/ SbExitAgain(s)

SpecSandbox == InitSB /\ [][NextSB]_vars

(***************************************************************************)
(* Checkpoint.save and Checkpoint.load on one checkpoint.json              *)
(* (main.py:37-56)                                                         *)
(***************************************************************************)
\* fields of the pydantic model (main.py:40-44); an Optional[...] annotation
\* without a default value is a required field that accepts None
CheckpointFields ==
    {"objective", "history", "latest_code", "execution_feedback", "orchestrator_step"}

OptionalFields == {"latest_code", "execution_feedback"}

\* a key no version of Checkpoint declares
ExtraKey == "schema_version"

\* json.dump(self.model_dump(), f, indent=4) (main.py:46-49): every field
\* becomes a key; None becomes null, the CodeAgentOutput an object
Dump(rec) ==
    [k \in CheckpointFields |->
        CASE k = "objective" -> <<"string", rec.objective>>
          [] k = "history" -> <<"array", rec.history>>
          [] k = "latest_code" ->
                IF rec.latest_code = None THEN <<"null">>
                ELSE <<"object", rec.latest_code>>
          [] k = "execution_feedback" ->
                IF rec.execution_feedback = NoFeedback THEN <<"null">>
                ELSE <<"string", rec.execution_feedback>>
          [] OTHER -> <<"number", rec.orchestrator_step>>]

Load_drops_feedback(doc) ==
    IF CheckpointFields \ DOMAIN doc # {}
    THEN [ok |-> FALSE, error |-> "ValidationError", rec |-> BlankCheckpoint]
    ELSE [ok |-> TRUE, error |-> None,
          rec |-> Checkpoint(
                    doc["objective"][2],
                    doc["history"][2],
                    IF doc["latest_code"][1] = "null" THEN None
                    ELSE doc["latest_code"][2],
                    NoFeedback,
                    doc["orchestrator_step"][2])]

\* json.load and cls(**data) (main.py:51-56): pydantic raises
\* ValidationError for a missing required field and ignores a key that is
\* not a field; null becomes None
Load(doc) ==
    IF CheckpointFields \ DOMAIN doc # {}
    THEN [ok |-> FALSE, error |-> "ValidationError", rec |-> BlankCheckpoint]
    ELSE [ok |-> TRUE, error |-> None,
          rec |-> Checkpoint(
                    doc["objective"][2],
                    doc["history"][2],
                    IF doc["latest_code"][1] = "null" THEN None
                    ELSE doc["latest_code"][2],
                    IF doc["execution_feedback"][1] = "null" THEN NoFeedback
                    ELSE doc["execution_feedback"][2],
                    doc["orchestrator_step"][2])]

\* the document after a writer of another schema version dropped optional
\* fields from it or added a key of its own
Edited(doc, missing, extra) ==
    [k \in (DOMAIN doc \ missing) \cup (IF extra THEN {ExtraKey} ELSE {}) |->
        IF k \in DOMAIN doc THEN doc[k] ELSE <<"number", 2>>]

\* history lines a run appends (main.py:318)
HistoryLines == {HumanMessage("question", "answer"), FinishMessage("done")}

Histories == UNION { [1 .. n -> HistoryLines] : n \in 0 .. MaxHistory }

\* run states Checkpoint(...) is built from (main.py:321-327)
RunStates ==
    { Checkpoint(obj, hist, code, fb, step) :
        obj \in Objectives, hist \in Histories, code \in Codes \cup {None},
        fb \in {NoFeedback} \cup { Feedback(r) : r \in RunResults },
        step \in 1 .. MAX_ORCHESTRATOR_STEPS }

InitCkpt ==
    /\ MainIdle
    /\ ErIdle
    /\ SbIdle
    /\ pc = "checkpoint"
    /\ ckState \in RunStates
    /\ ckDoc = NoDoc
    /\ ckPrev = NoDoc
    /\ ckEdit = NoEdit
    /\ ckLoaded = NotLoaded
    /\ ckPc = "state"

\* Checkpoint.save of the state the run built, or of the state it loaded
\* (main.py:46-49)
CkSave ==
    /\ ckPc \in {"state", "loaded"}
    /\ ckPrev' = ckDoc
    /\ ckDoc' = Dump(ckState)
    /\ ckPc' = IF ckPc = "state" THEN "saved" ELSE "resaved"
    /\ UNCHANGED <<pc, mainVars, erVars, sbVars, ckState, ckEdit, ckLoaded>>

\* checkpoint.json as a writer of another schema version left it
CkEdit ==
    /\ ckPc = "saved"
    /\ \E missing \in SUBSET OptionalFields, extra \in BOOLEAN :
        /\ missing # {} \/ extra
        /\ ckEdit' = [missing |-> missing, extra |-> extra]
        /\ ckDoc' = Edited(ckDoc, missing, extra)
    /\ ckPc' = "edited"
    /\ UNCHANGED <<pc, mainVars, erVars, sbVars, ckState, ckPrev, ckLoaded>>

\* Checkpoint.load (main.py:51-56)
CkLoad ==
    /\ ckPc \in {"saved", "edited"}
    /\ ckLoaded' = Load(ckDoc)
    /\ ckState' = IF Load(ckDoc).ok THEN Load(ckDoc).rec ELSE ckState
    /\ ckPc' = IF Load(ckDoc).ok THEN "loaded" ELSE "load_raised"
    /\ UNCHANGED <<pc, mainVars, erVars, sbVars, ckDoc, ckPrev, ckEdit>>

NextCkpt == CkSave \/ CkEdit \/ CkLoad

SpecCkpt == InitCkpt /\ [][NextCkpt]_vars

(***************************************************************************)
(* Properties                                                              *)
(***************************************************************************)
Last(seq) == seq[Len(seq)]

InCycle == pc \in {"code_call", "sandbox_enter", "sandbox_run"}

\* C1: within one retry cycle no code-oracle call and no sandbox run is
\* issued after the first execution that exits with code 0; the cycle then
\* returns with succeeded = true.
C1_AtMostOneSuccess ==
    /\ cycAfterSuccess = 0
    /\ cycSuccessSeen => ~InCycle
    /\ (cycSuccessSeen /\ cycleReturn.returned) => cycleReturn.succeeded

\* a cycle returned success on an attempt before the last of the budget
C1_Witness ==
    /\ cycleReturn.returned /\ cycleReturn.succeeded
    /\ cycSuccessSeen
    /\ attempt < MAX_CODE_AGENT_ATTEMPTS

\* C2: a retry cycle never makes more than MAX_CODE_AGENT_ATTEMPTS
\* code-oracle calls or sandbox runs, and one that returns after only
\* failing executions has called the code oracle exactly
\* MAX_CODE_AGENT_ATTEMPTS times, run the sandbox exactly as often, and
\* returns succeeded = false.
C2_BudgetRespected ==
    /\ cycCodeCalls <= MAX_CODE_AGENT_ATTEMPTS
    /\ cycSandboxRuns <= MAX_CODE_AGENT_ATTEMPTS
    /\ (cycleReturn.returned /\ ~cycSuccessSeen) =>
            /\ cycCodeCalls = MAX_CODE_AGENT_ATTEMPTS
            /\ cycSandboxRuns = MAX_CODE_AGENT_ATTEMPTS
            /\ ~cycleReturn.succeeded

\* a cycle returned after only failing executions
C2_Witness ==
    /\ cycleReturn.returned
    /\ ~cycSuccessSeen
    /\ cycSandboxRuns > 0

\* C3: when a code_agent step ends with a successful execution, the cycle
\* returns no feedback, the run state holds no feedback, and the checkpoint
\* of the step holds no feedback.
C3_FeedbackResetOnSuccess ==
    /\ (cycleReturn.returned /\ cycleReturn.succeeded) =>
            cycleReturn.feedback = NoFeedback
    /\ (pc \in {"save_open", "save_write"} /\ cycleReturn.returned
            /\ cycleReturn.succeeded /\ Last(history)[1] = "code_agent") =>
            /\ execution_feedback = NoFeedback
            /\ pc = "save_write" => ckptFile.data.execution_feedback = NoFeedback
    /\ (lastSaved.written = "complete"
            /\ Last(lastSaved.data.history)[1] = "code_agent"
            /\ Last(lastSaved.data.history)[2] = "success") =>
            lastSaved.data.execution_feedback = NoFeedback

\* the checkpoint of a step that succeeded after a failed execution (of an
\* earlier attempt or an earlier step) has been written
C3_Witness ==
    /\ cycleReturn.returned /\ cycleReturn.succeeded
    /\ local_feedback # NoFeedback
    /\ lastSaved.written = "complete"
    /\ lastSaved.data.history = history
    /\ Last(history)[1] = "code_agent"

\* C4: the first step a process executes is step S+1 when it resumed from a
\* checkpoint with step index S and step 1 when it started fresh, and the
\* history given to the decision oracle in that step is the checkpoint's
\* history (the empty one for a fresh run).
C4_ResumeContinuity ==
    /\ (firstInput.called /\ loadStatus = "complete") =>
            /\ firstInput.step = loadedRec.orchestrator_step + 1
            /\ firstInput.history = loadedRec.history
    /\ (firstInput.called /\ loadStatus = "fresh") =>
            /\ firstInput.step = 1
            /\ firstInput.history = <<>>

\* a resumed process called the decision oracle with a non-empty history
C4_Witness ==
    /\ firstInput.called
    /\ loadStatus = "complete"
    /\ Len(firstInput.history) > 0

\* C5: after the process was killed at any point, checkpoint.json is
\* absent or a complete checkpoint, never empty or partially written.
C5_SaveAtomic ==
    pc = "killed" => ckptFile.written \in {"absent", "complete"}

StepFaults == {"OracleError", "EOFError", "OSError", "FileExistsError"}

\* C6: after a fault raised in a step before its checkpoint write, the
\* loop has stopped, the fault has left run() (non-zero exit), and
\* checkpoint.json is as the last completed step left it (absent if none
\* completed).
C6_FaultLeavesCheckpoint ==
    fault \in StepFaults =>
        /\ pc = "crashed"
        /\ exitStatus = "nonzero"
        /\ ckptFile = lastSaved

\* the decision oracle or the code oracle faulted in the step after a
\* completed one
C6_Witness ==
    /\ pc = "crashed"
    /\ fault = "OracleError"
    /\ lastSaved.written = "complete"
    /\ i = lastSaved.data.orchestrator_step + 1

\* C7: the records a crashed execution of a step left in the run directory
\* never make the re-execution of the step fault.
C7_CrashedStepNeverHappened == fault # "FileExistsError"

C9_OutcomeReported ==
    /\ terminal = "finished" => exitStatus = "zero"
    /\ terminal \in {"budget_exhausted", "crashed"} => exitStatus = "nonzero"

\* C10: was_successful is true exactly when the exit code is 0 and the
\* result did not time out.
C10_WasSuccessful ==
    pc = "er_read" => (erSuccessful <=> (er.exit_code = 0 /\ ~er.timed_out))

SbEnded == {"exited", "closed_twice", "enter_raised"}

\* C11: once a sandbox session has ended (closed once or twice, with or
\* without run(), or its __enter__ raised while writing the files), its
\* workspace directory no longer exists.
C11_WorkspaceRemoved ==
    \A s \in Sessions : sbPc[s] \in SbEnded => sbWorkspace[s] \notin tmpDirs

\* C12: every file a session has written lies in the workspace of that
\* session.
C12_WritesInsideWorkspace ==
    \A l \in DOMAIN fs : fs[l] # None => l[1] = sbWorkspace[fs[l]]

SbOpen == {"writing", "entered", "ran"}

\* C13: two sessions that are open at the same time and whose file lists
\* share a path have different workspaces, no file of one lies in the
\* workspace of the other, and no container finds a file of the other
\* session.
C13_SessionsIsolated ==
    \A s, t \in Sessions :
        (/\ s # t
         /\ sbPc[s] \in SbOpen /\ sbPc[t] \in SbOpen
         /\ \E k \in DOMAIN sbFiles[s], n \in DOMAIN sbFiles[t] :
                sbFiles[s][k] = sbFiles[t][n]) =>
            /\ sbWorkspace[s] # sbWorkspace[t]
            /\ \A name \in FileNames : fs[<<sbWorkspace[s], name>>] # t
            /\ t \notin sbSeen[s]

\* C14: a run state that is saved, loaded and saved again unchanged leaves
\* in checkpoint.json the content the first save left there.
C14_SaveLoadSaveSame ==
    (ckPc = "resaved" /\ ckEdit = NoEdit) => ckDoc = ckPrev

C14_Witness ==
    /\ ckPc = "resaved"
    /\ ckEdit = NoEdit
    /\ ckState.latest_code # None
    /\ ckState.execution_feedback # NoFeedback
    /\ ckState.history # <<>>

\* C17: a checkpoint.json that lacks optional fields or holds an unknown
\* key loads; the fields it lacks are None in the loaded state and the
\* other fields are as saved.
C17_SchemaTolerantLoad ==
    (ckPc \in {"loaded", "load_raised"} /\ ckEdit # NoEdit) =>
        /\ ckLoaded.ok
        /\ ckLoaded.rec.objective = ckPrev["objective"][2]
        /\ "latest_code" \in ckEdit.missing => ckLoaded.rec.latest_code = None
        /\ "execution_feedback" \in ckEdit.missing =>
                ckLoaded.rec.execution_feedback = NoFeedback

\* C15: the retry cycle returns a result only after at least one
\* code-oracle call; a run configured with an attempt budget of 0 does not
\* get that far.
C15_NoReturnWithoutCall ==
    cycleReturn.returned => (cycCodeCalls >= 1 /\ max_attempts >= 1)

\* C16: a transient server fault of an oracle call is retried at most
\* MaxOracleRetries times; while retries are left the call stays in
\* progress, and the fault leaves the call as a fatal fault of the run only
\* when it happens with the retries used up.
C16_BoundedOracleRetries ==
    /\ oracleFaults \in 0 .. MaxOracleRetries
    /\ fault = "OracleServerFault" =>
            (pc = "crashed" /\ oracleFaults = MaxOracleRetries)
    /\ (oracleFaults > 0 /\ fault = None) => pc \in {"decide", "code_call", "killed"}

C16_Witness ==
    /\ fault = "OracleServerFault"
    /\ oracleFaults = MaxOracleRetries
    /\ cycCodeCalls >= 1

OracleFaults == {"OracleError", "OracleServerFault"}

\* the code-oracle call of the current attempt has raised
CodeCallFailed == fault \in OracleFaults /\ cycCodeCalls = cycSandboxRuns + 1

\* C18: when the code-oracle call of attempt k raises, the run ends with
\* the fault: attempt k has no sandbox run, there is no call after it, the
\* history has no entry of the step and checkpoint.json is as the last
\* completed step left it.
C18_CodeOracleFaultAbortsCycle ==
    CodeCallFailed =>
        /\ pc = "crashed"
        /\ cycCodeCalls = attempt
        /\ cycSandboxRuns = attempt - 1
        /\ ~cycleReturn.returned
        /\ history = ckptFile.data.history
        /\ ckptFile = lastSaved
        /\ ckptFile.written \in {"absent", "complete"}
        /\ ckptFile.written = "complete" => ckptFile.data.orchestrator_step = i - 1

C18_Witness ==
    /\ CodeCallFailed
    /\ attempt >= 2
    /\ i >= 2

\* C19: the code-oracle call of the first attempt gets the artifact set
\* and the feedback of the run state as the step found it; the call of
\* attempt k+1 gets the artifact set attempt k generated and the feedback
\* built from the result of attempt k's execution.
C19_AttemptInput ==
    (pc = "sandbox_enter" /\ codeInput.called) =>
        IF attempt = 1
        THEN /\ codeInput.previous_result = ckptFile.data.latest_code
             /\ codeInput.execution_feedback = ckptFile.data.execution_feedback
             /\ codeInput.execution_feedback = execution_feedback
        ELSE /\ lastAttempt.k = attempt - 1
             /\ codeInput.previous_result = lastAttempt.code
             /\ codeInput.execution_feedback = Feedback(lastAttempt.result)

C19_Witness ==
    /\ pc = "sandbox_enter"
    /\ attempt >= 2
    /\ codeInput.previous_result # latest_code
    /\ codeInput.execution_feedback # execution_feedback
    /\ execution_feedback # NoFeedback

\* the step that is being saved is a code_agent step whose cycle ran out
StepExhausted ==
    /\ pc \in {"save_open", "save_write"}
    /\ history # <<>>
    /\ Last(history)[1] = "code_agent"
    /\ Last(history)[2] = "failed"

\* C20: a code_agent step whose cycle used up the budget without a
\* successful execution is completed: the run state and the checkpoint of
\* the step hold the artifact set of the last attempt and the feedback of
\* its execution, the history entry says so, and the loop goes on.
C20_ExhaustedStepCompletes ==
    StepExhausted =>
        /\ lastAttempt.k = MAX_CODE_AGENT_ATTEMPTS
        /\ ~was_successful(lastAttempt.result)
        /\ latest_code = lastAttempt.code
        /\ execution_feedback = Feedback(lastAttempt.result)
        /\ Last(history) =
                <<"code_agent", "failed", lastAttempt.code, Feedback(lastAttempt.result)>>
        /\ StepCheckpoint.latest_code = lastAttempt.code
        /\ StepCheckpoint.execution_feedback = Feedback(lastAttempt.result)
        /\ continue_loop
        /\ fault = None

C20_Witness ==
    /\ pc = "decide"
    /\ i >= 2
    /\ cycleReturn.returned
    /\ ~cycleReturn.succeeded
    /\ Last(history)[2] = "failed"
    /\ ckptFile.written = "complete"
    /\ ckptFile.data.latest_code = lastAttempt.code
    /\ ckptFile.data.execution_feedback = Feedback(lastAttempt.result)

\* the last sandbox run of the cycle ended by timeout or by an unexpected
\* failure of the executor
ExecutorFailed ==
    /\ lastAttempt.k >= 1
    /\ lastAttempt.result \in {RunOutcome("timeout"), RunOutcome("error")}

\* C21: run() returns a result for a timeout (timed_out set, exit code not
\* 0) and for an unexpected failure of the executor (exit code not 0, the
\* error text in stderr) and nothing is raised; the cycle takes either as
\* a failed attempt: the next attempt follows with the feedback of that
\* result, or the cycle returns a failure with it when the budget is used.
C21_ExecutorFailureIsFailedAttempt ==
    /\ RunOutcome("timeout").timed_out /\ RunOutcome("timeout").exit_code # 0
    /\ RunOutcome("error").exit_code # 0 /\ RunOutcome("error").stderr # ""
    /\ pc = "record" => (fault = None /\ execution_result = lastAttempt.result)
    /\ (ExecutorFailed /\ pc = "code_call") =>
            /\ attempt = lastAttempt.k + 1
            /\ attempt <= MAX_CODE_AGENT_ATTEMPTS
            /\ local_feedback = Feedback(lastAttempt.result)
    /\ (ExecutorFailed /\ cycleReturn.returned) =>
            /\ ~cycleReturn.succeeded
            /\ lastAttempt.k = MAX_CODE_AGENT_ATTEMPTS
            /\ cycleReturn.feedback = Feedback(lastAttempt.result)

C21_Witness ==
    /\ pc = "code_call"
    /\ attempt >= 2
    /\ lastAttempt.result.timed_out
    /\ fault = None

\* the checkpoint write of the step in progress is what is left of it
Saving == pc \in {"save_open", "save_write"}

\* C22: a finish step appends one history entry with the reason it was
\* given, ends the loop flag, writes its checkpoint, and the run is over:
\* the process makes no decision-oracle call and no checkpoint write after
\* it.
C22_FinishEndsLoop ==
    /\ (Saving /\ Last(history)[1] = "finish") =>
            /\ ~continue_loop
            /\ Last(history)[1] = "finish"
            /\ Last(history)[2] = "reason"
            /\ Len(history) = i
    /\ terminal = "finished" =>
            /\ pc = "done"
            /\ Last(history)[1] = "finish"
            /\ Last(history)[2] = "reason"
            /\ Len(history) = i
            /\ ckptFile = lastSaved
            /\ ckptFile = File(StepCheckpoint, "complete")
            /\ stepsStarted = i - start_step + 1
            /\ ckptWrites = stepsStarted

C22_Witness ==
    /\ terminal = "finished"
    /\ i < MAX_ORCHESTRATOR_STEPS
    /\ ckptFile.data.history = <<FinishMessage("reason")>>

\* C23: a step whose action name is none of code_agent, human_agent and
\* finish ends with a history entry that records an unknown action and
\* with the loop flag cleared, and the run is not reported as finished.
C23_UnknownActionRecorded ==
    fault = "ValueError" =>
        /\ history # <<>>
        /\ Last(history)[1] = "unknown"
        /\ ~continue_loop
        /\ terminal # "finished"

MidStep == pc \in {"code_call", "sandbox_enter", "sandbox_run", "record", "human"}

\* length of the history the process started from (main.py:156-161)
LoadedHistoryLen == IF loadStatus = "complete" THEN Len(loadedRec.history) ELSE 0

\* steps of this process whose history entry has been appended
StepsAppended == Len(history) - LoadedHistoryLen

\* C25: the process has completed as many checkpoint writes as it has
\* completed steps, the checkpoint on disk carries the number of the last
\* completed step, and while a step is at work (through all attempts of a
\* retry cycle) checkpoint.json stays as the last completed step left it.
C25_OneCheckpointPerStep ==
    /\ (MidStep \/ pc \in {"decide", "done", "crashed"}) =>
            /\ ckptWrites = StepsAppended
            /\ loadStatus \in {"fresh", "complete"} => ckptFile = lastSaved
    /\ Saving => ckptWrites = StepsAppended - 1
    /\ (MidStep \/ pc = "decide") => ckptWrites = i - start_step
    /\ (MidStep /\ ckptFile.written = "complete") =>
            ckptFile.data.orchestrator_step = i - 1
    /\ lastSaved.written = "complete" =>
            lastSaved.data.orchestrator_step = Len(lastSaved.data.history)

C25_Witness ==
    /\ pc = "sandbox_enter"
    /\ attempt >= 2
    /\ ckptWrites >= 1
    /\ ckptFile.written = "complete"
    /\ latest_code # ckptFile.data.latest_code

\* C26: the events of a step come in the order decision, dispatch, history
\* append, checkpoint write, continue-or-stop, and the decision of a step
\* is asked for only when the checkpoint write of the step before it is
\* complete: no two steps overlap.
C26_StepsTotallyOrdered ==
    /\ (pc = "decide" /\ i > start_step) =>
            /\ stepsStarted = i - start_step
            /\ ckptWrites = i - start_step
            /\ ckptFile = File(Checkpoint(objective, history, latest_code,
                                          execution_feedback, i - 1), "complete")
            /\ lastSaved = ckptFile
            /\ Len(history) = i - 1
            /\ continue_loop
    /\ MidStep =>
            /\ stepsStarted = i - start_step + 1
            /\ ckptWrites = i - start_step
            /\ Len(history) = i - 1
    /\ Saving =>
            /\ stepsStarted = i - start_step + 1
            /\ ckptWrites = i - start_step
            /\ Len(history) = i
            /\ terminal = None
    /\ (pc = "done" /\ stepsStarted >= 1) =>
            /\ ckptWrites = stepsStarted
            /\ Len(history) = i
            /\ ckptFile.written = "complete"
            /\ ckptFile.data.history = history
            /\ ckptFile.data.orchestrator_step = i

C26_Witness ==
    /\ pc = "decide"
    /\ i = start_step + 1
    /\ ckptWrites = 1
    /\ ckptFile.written = "complete"
    /\ ckptFile.data.orchestrator_step = start_step
    /\ cycleReturn.returned

\* seq is bigger with exactly one entry appended
AppendsOne(seq, bigger) ==
    /\ Len(bigger) = Len(seq) + 1
    /\ SubSeq(bigger, 1, Len(seq)) = seq

\* C27: the history only grows at its end, by exactly one entry when a step
\* finishes its work, whatever the action and however many attempts it
\* took; entries already in it are never removed, reordered or modified,
\* and each checkpoint holds the history of the checkpoint before it plus
\* one entry.  (A new process starts from the history it loads.)
C27_HistoryAppendOnly ==
    [][/\ pc \in Running \ {"start"} =>
              \/ history' = history
              \/ /\ AppendsOne(history, history')
                 /\ (MidStep \/ pc = "decide")
                 /\ pc' = "save_open"
       /\ ((MidStep \/ pc = "decide") /\ pc' = "save_open") =>
              AppendsOne(history, history')
       /\ pc \in {"save_open", "save_write"} => history' = history
       /\ lastSaved' # lastSaved =>
              /\ AppendsOne(lastSaved.data.history, lastSaved'.data.history)
              /\ lastSaved'.data.history = history
              /\ lastSaved'.data.orchestrator_step =
                     lastSaved.data.orchestrator_step + 1
      ]_vars

C27_Witness ==
    /\ Len(history) >= 2
    /\ lastSaved.written = "complete"
    /\ lastSaved.data.history = history
    /\ history[1][1] = "code_agent"
    /\ lastAttempt.k >= 2

\* the entries of code_generation steps in a history, in order
CodeEntries(h) == SelectSeq(h, LAMBDA m : m[1] = "code_agent")

\* the artifact set and the feedback of rec are those of the last
\* code_generation step of its history, and the feedback is there only if
\* that step failed
PairedWithLastCodeStep(rec) ==
    LET entries == CodeEntries(rec.history)
    IN  IF entries = <<>>
        THEN rec.latest_code = None /\ rec.execution_feedback = NoFeedback
        ELSE /\ rec.latest_code = Last(entries)[3]
             /\ rec.latest_code # None
             /\ rec.execution_feedback = Last(entries)[4]
             /\ rec.execution_feedback # NoFeedback <=> Last(entries)[2] = "failed"

\* C28: a checkpoint holds feedback only together with an artifact set
\* whose last execution failed, never with an artifact set that ran
\* successfully and never without an artifact set; the feedback is the
\* output of that failed execution.
C28_FeedbackPairedWithFailedCode ==
    /\ ckptFile.written # "absent" => PairedWithLastCodeStep(ckptFile.data)
    /\ PairedWithLastCodeStep(lastSaved.data)
    /\ (Saving /\ Last(history)[1] = "code_agent" /\ lastAttempt.k >= 1) =>
            /\ StepCheckpoint.latest_code = lastAttempt.code
            /\ lastAttempt.code # None
            /\ IF was_successful(lastAttempt.result)
               THEN StepCheckpoint.execution_feedback = NoFeedback
               ELSE StepCheckpoint.execution_feedback = Feedback(lastAttempt.result)
            /\ Feedback(lastAttempt.result) # NoFeedback

C28_Witness ==
    /\ lastSaved.written = "complete"
    /\ Len(lastSaved.data.history) >= 2
    /\ lastSaved.data.history[1][2] = "failed"
    /\ lastSaved.data.history[2][1] = "code_agent"
    /\ lastSaved.data.execution_feedback = NoFeedback
    /\ lastSaved.data.latest_code # None

\* an oracle call, a recording, a history append or a checkpoint write is
\* the next thing the process does, or it has returned
OutsideSession ==
    pc \in {"decide", "code_call", "record", "human", "save_open",
            "save_write", "done"}

\* C29: the process has at most one sandbox session open, and only between
\* entering and leaving the with block of an attempt: when an oracle is
\* called, an attempt is recorded, the history is appended or the
\* checkpoint is written, no session of the process is open and no
\* workspace it made exists.
C29_OneSessionClosedBeforeNext ==
    /\ sandboxOpen \in {0, 1}
    /\ workspaces \in {0, 1}
    /\ pc \in Running => (sandboxOpen = 1 <=> pc = "sandbox_run")
    /\ OutsideSession => (sandboxOpen = 0 /\ workspaces = 0)
    /\ pc = "sandbox_run" => workspaces = 1
    /\ (pc = "record" /\ lastAttempt.k >= 1) =>
            (lastAttempt.k = attempt /\ cycSandboxRuns >= 1)

C29_Witness ==
    /\ pc = "code_call"
    /\ attempt >= 2
    /\ cycSandboxRuns >= 1
    /\ lastAttempt.k = attempt - 1
    /\ sandboxOpen = 0
    /\ workspaces = 0

\* the step being saved was a human_input or a terminate step
SavingFrameStep ==
    /\ pc = "save_write"
    /\ Last(history)[1] \in {"human_agent", "finish"}

\* C30: a human_input step and a terminate step assign neither the latest
\* artifact set nor the latest feedback, and the checkpoint such a step
\* writes carries the two values of the checkpoint before it; a terminate
\* step does not clear the feedback.
C30_HumanAndFinishKeepCodeState ==
    [][/\ (pc = "human" \/ (pc = "decide" /\ pc' \in {"human", "save_open"})) =>
              UNCHANGED <<latest_code, execution_feedback>>
       /\ (SavingFrameStep /\ lastSaved' # lastSaved) =>
              /\ lastSaved' = ckptFile'
              /\ lastSaved'.data.latest_code = lastSaved.data.latest_code
              /\ lastSaved'.data.execution_feedback =
                     lastSaved.data.execution_feedback
              /\ lastSaved'.data.latest_code = latest_code
              /\ lastSaved'.data.execution_feedback = execution_feedback
      ]_vars

C30_Witness ==
    /\ terminal = "finished"
    /\ lastSaved = ckptFile
    /\ Len(lastSaved.data.history) >= 2
    /\ lastSaved.data.history[1][2] = "failed"
    /\ Last(lastSaved.data.history)[1] = "finish"
    /\ lastSaved.data.execution_feedback # NoFeedback
    /\ lastSaved.data.latest_code # None

\* the command the sandbox of an attempt is given: agent_input.command
\* (main.py:199-201)
SandboxCommand == codeInput.command

\* the step is inside _handle_code_generation_action
InHandler == pc \in {"code_call", "sandbox_enter", "sandbox_run", "record"}

IndexCountsHistory(rec) == Len(rec.history) = rec.orchestrator_step

\* C32: every checkpoint of a run, started fresh or resumed from a
\* checkpoint of the run, holds as many history entries as its step index,
\* and the step index of a checkpoint is one more than the step index of
\* the checkpoint written before it (the first has index 1).
C32_StepIndexCountsHistory ==
    /\ ckptFile.written # "absent" =>
            (IndexCountsHistory(ckptFile.data) /\ ckptFile.data.orchestrator_step >= 1)
    /\ lastSaved.written = "complete" =>
            (IndexCountsHistory(lastSaved.data) /\ lastSaved.data.orchestrator_step >= 1)
    /\ lastSaved.written = "absent" => lastSaved.data.orchestrator_step = 0
    /\ ckptFile # lastSaved =>
            ckptFile.data.orchestrator_step = lastSaved.data.orchestrator_step + 1
    /\ loadStatus = "complete" =>
            /\ IndexCountsHistory(loadedRec)
            /\ start_step = Len(loadedRec.history) + 1
    /\ Saving =>
            /\ Len(history) = i
            /\ i = lastSaved.data.orchestrator_step + 1

C32_Witness ==
    /\ relaunches >= 1
    /\ loadStatus = "complete"
    /\ ckptWrites >= 1
    /\ lastSaved = ckptFile
    /\ lastSaved.data.orchestrator_step = 2
    /\ Len(lastSaved.data.history) = 2
    /\ loadedRec.orchestrator_step = 1

\* the process resumed from a checkpoint whose last step was a finish (or
\* an unknown-action) step
ResumedFinished ==
    /\ loadStatus = "complete"
    /\ loadedRec.history # <<>>
    /\ Last(loadedRec.history)[1] \in {"finish", "unknown"}

\* C33: a run resumed from a checkpoint whose last completed step was a
\* finish (or unknown-action) step executes no further step: it asks the
\* decision oracle nothing and its history stays the loaded one.
C33_FinishedIsTerminal ==
    ResumedFinished =>
        /\ stepsStarted = 0
        /\ ~firstInput.called
        /\ history = loadedRec.history

\* the steps a run that starts at step index s may execute
StepBudget(s) ==
    IF s <= MAX_ORCHESTRATOR_STEPS THEN MAX_ORCHESTRATOR_STEPS - s + 1 ELSE 0

\* the process is inside the loop of run()
InLoop == pc \in {"decide", "human", "save_open", "save_write"} \/ InHandler

\* C34: every run ends, provided the calls it makes come back: a run that
\* starts at step index s executes at most MAX_ORCHESTRATOR_STEPS - s + 1
\* steps (none when it resumes from a checkpoint of the last step), never a
\* step beyond MAX_ORCHESTRATOR_STEPS, and a code_generation step calls the
\* code oracle at most MAX_CODE_AGENT_ATTEMPTS times.
C34_RunTerminatesWithinBudget ==
    /\ [](/\ stepsStarted <= StepBudget(start_step)
          /\ i <= MAX_ORCHESTRATOR_STEPS
          /\ InLoop => (start_step <= i /\ stepsStarted <= i - start_step + 1)
          /\ (loadStatus = "complete"
                /\ loadedRec.orchestrator_step >= MAX_ORCHESTRATOR_STEPS) =>
                 (stepsStarted = 0 /\ ~InLoop /\ ckptWrites = 0)
          /\ cycCodeCalls <= MAX_CODE_AGENT_ATTEMPTS
          /\ attempt <= MAX_CODE_AGENT_ATTEMPTS)
    /\ <>(pc \in Ended)

C34_Witness ==
    /\ pc = "done"
    /\ terminal = "budget_exhausted"
    /\ start_step = 2
    /\ i = MAX_ORCHESTRATOR_STEPS
    /\ stepsStarted = MAX_ORCHESTRATOR_STEPS - 1
    /\ cycCodeCalls = MAX_CODE_AGENT_ATTEMPTS

====
